---- MODULE Spec2Model ----
(***************************************************************************)
(* Model of src/src/main.rs: a Bevy 0.4 application with one startup       *)
(* system (setup) and three per-frame systems (process_mouse_events,       *)
(* update_camera, update_play).                                            *)
(*                                                                         *)
(* f32 values are modelled in fixed point: the integer n stands for the    *)
(* real n / ONE.  Angles are radians in fixed point, as in the source.     *)
(* Vec2/Vec3/Quat are records of fixed-point components.  The glam and     *)
(* Bevy functions the source calls are modelled by what they compute.      *)
(***************************************************************************)
EXTENDS Integers, Sequences, FiniteSets, TLC

(***************************************************************************)
(* Fixed-point scalar arithmetic (f32).                                    *)
(***************************************************************************)
ONE == 1000

PI == 3142

Abs(a) == IF a < 0 THEN -a ELSE a

Sgn(a) == IF a < 0 THEN -1 ELSE IF a > 0 THEN 1 ELSE 0

\* n / d rounded to nearest, symmetric about zero (d > 0)
RoundDiv(n, d) == Sgn(n) * ((2 * Abs(n) + d) \div (2 * d))

\* f32 product a * b
Mul(a, b) == RoundDiv(a * b, ONE)

\* f32 quotient a / b  (b # 0)
Div(a, b) == Sgn(b) * RoundDiv(a * ONE, Abs(b))

RECURSIVE SqrtIter(_, _, _)
SqrtIter(n, lo, hi) ==
    IF hi - lo <= 1 THEN lo
    ELSE LET mid == (lo + hi) \div 2
         IN  IF mid * mid <= n THEN SqrtIter(n, mid, hi) ELSE SqrtIter(n, lo, mid)

\* floor of the square root of the integer n >= 0
ISqrt(n) == SqrtIter(n, 0, 46341)

\* f32::sqrt on fixed point: sqrt(a / ONE) * ONE
Sqrt(a) == ISqrt(a * ONE)

\* f32::max / f32::min
Max(a, b) == IF a < b THEN b ELSE a

Min(a, b) == IF b < a THEN b ELSE a

\* f32::to_radians of a whole number of degrees
ToRadians(deg) == RoundDiv(deg * PI, 180)

\* sin on [0, PI] (Bhaskara's rational approximation, exact at 0, PI/6, PI/2, PI)
SinHalfTurn(r) ==
    LET p == Mul(r, PI - r)
    IN  RoundDiv(16 * p * ONE, 5 * Mul(PI, PI) - 4 * p)

\* f32::sin
Sin(a) ==
    LET r == a % (2 * PI)
    IN  IF r <= PI THEN SinHalfTurn(r) ELSE -SinHalfTurn(r - PI)

\* f32::cos
Cos(a) == Sin(a + RoundDiv(PI, 2))

(***************************************************************************)
(* glam vectors.                                                           *)
(***************************************************************************)
Vec2(x, y) == [x |-> x, y |-> y]

Vec3(x, y, z) == [x |-> x, y |-> y, z |-> z]

Vec2Zero == Vec2(0, 0)

Vec3Zero == Vec3(0, 0, 0)

Vec3UnitY == Vec3(0, ONE, 0)

Vec3UnitZ == Vec3(0, 0, ONE)

Vec3Add(a, b) == Vec3(a.x + b.x, a.y + b.y, a.z + b.z)

Vec3Sub(a, b) == Vec3(a.x - b.x, a.y - b.y, a.z - b.z)

\* Vec3 * f32
Vec3Scale(a, s) == Vec3(Mul(a.x, s), Mul(a.y, s), Mul(a.z, s))

Vec3Dot(a, b) == Mul(a.x, b.x) + Mul(a.y, b.y) + Mul(a.z, b.z)

Vec3Cross(a, b) ==
    Vec3(Mul(a.y, b.z) - Mul(a.z, b.y),
         Mul(a.z, b.x) - Mul(a.x, b.z),
         Mul(a.x, b.y) - Mul(a.y, b.x))

Vec3Length(a) == ISqrt(a.x * a.x + a.y * a.y + a.z * a.z)

\* Vec3::normalize: returns the normalized vector, the receiver is not changed
Vec3Normalize(a) ==
    LET len == Vec3Length(a)
    IN  Vec3(Div(a.x, len), Div(a.y, len), Div(a.z, len))

Vec2Length(a) == ISqrt(a.x * a.x + a.y * a.y)

\* Vec2::normalize: returns the normalized vector, the receiver is not changed
Vec2Normalize(a) ==
    LET len == Vec2Length(a)
    IN  Vec2(Div(a.x, len), Div(a.y, len))

(***************************************************************************)
(* glam quaternions (x, y, z, w).                                          *)
(***************************************************************************)
Quat(x, y, z, w) == [x |-> x, y |-> y, z |-> z, w |-> w]

QuatIdentity == Quat(0, 0, 0, ONE)

\* a rotation about the x axis where one about the y axis is meant
QuatFromRotationX(angle) ==
    Quat(Sin(RoundDiv(angle, 2)), 0, 0, Cos(RoundDiv(angle, 2)))

\* Quat::from_rotation_y(angle): (0, sin(angle/2), 0, cos(angle/2))
QuatFromRotationY(angle) ==
    Quat(0, Sin(RoundDiv(angle, 2)), 0, Cos(RoundDiv(angle, 2)))

QuatDot(a, b) == Mul(a.x, b.x) + Mul(a.y, b.y) + Mul(a.z, b.z) + Mul(a.w, b.w)

QuatNormalize(q) ==
    LET len == ISqrt(q.x * q.x + q.y * q.y + q.z * q.z + q.w * q.w)
    IN  Quat(Div(q.x, len), Div(q.y, len), Div(q.z, len), Div(q.w, len))

\* Quat * Quat
QuatMul(a, b) ==
    Quat(Mul(a.w, b.x) + Mul(a.x, b.w) + Mul(a.y, b.z) - Mul(a.z, b.y),
         Mul(a.w, b.y) - Mul(a.x, b.z) + Mul(a.y, b.w) + Mul(a.z, b.x),
         Mul(a.w, b.z) + Mul(a.x, b.y) - Mul(a.y, b.x) + Mul(a.z, b.w),
         Mul(a.w, b.w) - Mul(a.x, b.x) - Mul(a.y, b.y) - Mul(a.z, b.z))

\* Quat * Vec3
QuatMulVec3(q, v) ==
    LET b  == Vec3(q.x, q.y, q.z)
        b2 == Vec3Dot(b, b)
    IN  Vec3Add(Vec3Add(Vec3Scale(v, Mul(q.w, q.w) - b2),
                        Vec3Scale(b, 2 * Vec3Dot(v, b))),
                Vec3Scale(Vec3Cross(b, v), 2 * q.w))

\* Quat::lerp(start, end, s): normalized linear interpolation along the
\* shorter arc
QuatLerp(start, end, s) ==
    LET bias == IF QuatDot(start, end) >= 0 THEN 1 ELSE -1
    IN  QuatNormalize(Quat(start.x + Mul(s, bias * end.x - start.x),
                           start.y + Mul(s, bias * end.y - start.y),
                           start.z + Mul(s, bias * end.z - start.z),
                           start.w + Mul(s, bias * end.w - start.w)))

\* Mat4::face_toward(eye, center, up): the rotation axes of the matrix
FaceToward(eye, center, up) ==
    LET forward == Vec3Normalize(Vec3Sub(eye, center))
        right   == Vec3Normalize(Vec3Cross(up, forward))
    IN  [x_axis |-> right, y_axis |-> Vec3Cross(forward, right),
         z_axis |-> forward, w_axis |-> eye]

\* Mat4::to_scale_rotation_translation().1: Quat::from_rotation_axes of the
\* axes divided by their lengths
ToRotation(m) ==
    LET xa  == Vec3Normalize(m.x_axis)
        ya  == Vec3Normalize(m.y_axis)
        za  == Vec3Normalize(m.z_axis)
        m00 == xa.x   m01 == xa.y   m02 == xa.z
        m10 == ya.x   m11 == ya.y   m12 == ya.z
        m20 == za.x   m21 == za.y   m22 == za.z
        Build(four_sq, a, b, c, order) ==
            LET inv4 == Div(ONE \div 2, Sqrt(four_sq))
                d == Mul(four_sq, inv4)
                p == Mul(a, inv4)
                q == Mul(b, inv4)
                r == Mul(c, inv4)
            IN  CASE order = "x" -> Quat(d, p, q, r)
                  [] order = "y" -> Quat(p, d, q, r)
                  [] order = "z" -> Quat(p, q, d, r)
                  [] order = "w" -> Quat(p, q, r, d)
    IN  IF m22 <= 0
        THEN IF m11 - m00 <= 0
             THEN Build((ONE - m22) - (m11 - m00), m01 + m10, m02 + m20, m12 - m21, "x")
             ELSE Build((ONE - m22) + (m11 - m00), m01 + m10, m12 + m21, m20 - m02, "y")
        ELSE IF m11 + m00 <= 0
             THEN Build((ONE + m22) - (m11 + m00), m02 + m20, m12 + m21, m01 - m10, "z")
             ELSE Build((ONE + m22) + (m11 + m00), m12 - m21, m20 - m02, m01 - m10, "w")

\* Transform::forward (Bevy 0.4): rotation * Vec3::unit_z()
Forward(transform) == QuatMulVec3(transform.rotation, Vec3UnitZ)

(***************************************************************************)
(* Bounds and input sets of the model.                                     *)
(***************************************************************************)
\* number of frames the engine runs
MaxFrames == 2

\* Time::delta_seconds of a frame
DeltaSeconds == {0, ONE \div 2}

\* the keys held down during a frame
KeyChords == {{}, {"A"}, {"W", "D"}, {"W", "S"}, {"W", "A", "S", "D"}}

\* MouseMotion.delta values
LookA == Vec2(PI, 8 * ONE)

LookB == Vec2(-(PI \div 2), -8 * ONE)

\* the MouseMotion events delivered before a frame, in order
MotionBatches == {<<>>, <<LookA>>, <<LookB, LookA>>, <<LookA, LookB>>}

\* the MouseWheel events (their y) delivered before a frame, in order
WheelBatches == {<<>>, <<3 * ONE>>, <<3 * ONE, -3 * ONE>>}

(***************************************************************************)
(* State.                                                                  *)
(***************************************************************************)
VARIABLES
    pc,                  \* "startup", "idle" (between frames) or the system to run next
    frame,               \* frames begun so far
    transform,           \* entity -> Transform component
    position,            \* entity -> Position component
    player,              \* entity -> Player component
    children,            \* entity -> Children component
    time,                \* Res<Time>: delta_seconds
    keyboard_input,      \* Res<Input<KeyCode>>: the pressed keys
    mouse_motion_events, \* Res<Events<MouseMotion>>
    mouse_wheel_events,  \* Res<Events<MouseWheel>>
    state,               \* ResMut<State>: the two event readers
    hist                 \* history of the current frame, read by the properties only

vars == <<pc, frame, transform, position, player, children, time, keyboard_input,
          mouse_motion_events, mouse_wheel_events, state, hist>>

None == <<>>

Some(e) == <<e>>

\* impl Default for Position
PositionDefault ==
    [yaw |-> 0, camera_distance |-> 20 * ONE, camera_pitch |-> ToRadians(30),
     camera_entity |-> None]

\* #[derive(Default)] struct Player
PlayerDefault == [pos_translation |-> Vec3Zero, pos_rotation |-> QuatIdentity]

\* Transform::from_translation / Transform::default
TransformFromTranslation(t) == [translation |-> t, rotation |-> QuatIdentity]

\* Events<T> with no event sent
EventsDefault == [buffer |-> <<>>, event_count |-> 0]

\* #[derive(Default)] struct State
StateDefault ==
    [mouse_motion_event_reader |-> [last_event_count |-> 0],
     mouse_wheel_event_reader  |-> [last_event_count |-> 0]]

\* the per-frame systems in registration order; systems that access the same
\* components run in this order
SystemsUpdateFirst == <<"process_mouse_events", "update_play", "update_camera">>

Systems == <<"process_mouse_events", "update_camera", "update_play">>

\* the system that runs after the i-th one, "idle" after the last
After(i) == IF i < Len(Systems) THEN Systems[i + 1] ELSE "idle"

IndexOf(s) == CHOOSE i \in 1..Len(Systems) : Systems[i] = s

RECURSIVE SortedSeq(_)
\* the entities of a query, in iteration order
SortedSeq(S) ==
    IF S = {} THEN <<>>
    ELSE LET m == CHOOSE x \in S : \A y \in S : x <= y
         IN  <<m>> \o SortedSeq(S \ {m})

HistInit ==
    [position0 |-> <<>>, transform0 |-> <<>>, player0 |-> <<>>,
     motion |-> <<>>, wheel |-> <<>>, position1 |-> <<>>,
     ran |-> <<>>, written |-> <<>>, applied |-> <<>>,
     cam_written |-> {}, skipped |-> 0,
     motion_reads |-> <<>>, wheel_reads |-> <<>>]

Init ==
    /\ pc = "startup"
    /\ frame = 0
    /\ transform = <<>>
    /\ position = <<>>
    /\ player = <<>>
    /\ children = <<>>
    /\ time = [delta_seconds |-> 0]
    /\ keyboard_input = {}
    /\ mouse_motion_events = EventsDefault
    /\ mouse_wheel_events = EventsDefault
    /\ state = StateDefault
    /\ hist = HistInit

(***************************************************************************)
(* setup: the startup system.  Entities are numbered in spawn order:       *)
(* 0 camera, 1 orbit (Position) cube, 2 plane, 3 light, 4 player cube.     *)
(***************************************************************************)
SetupWith(camera_entity, position_component) ==
    /\ pc = "startup"
    /\ LET pos_entity == Some(1)
       IN  /\ transform' = (0 :> TransformFromTranslation(Vec3Zero))
                        @@ (1 :> TransformFromTranslation(Vec3(0, ONE \div 2, 0)))
                        @@ (2 :> TransformFromTranslation(Vec3Zero))
                        @@ (3 :> TransformFromTranslation(Vec3(4 * ONE, 5 * ONE, 4 * ONE)))
                        @@ (4 :> TransformFromTranslation(Vec3(0, ONE \div 2, 0)))
           /\ position' = (pos_entity[1] :> position_component)
           /\ children' = (pos_entity[1] :> <<camera_entity[1]>>)
           /\ player' = (4 :> PlayerDefault)
    /\ pc' = "idle"
    /\ UNCHANGED <<frame, time, keyboard_input, mouse_motion_events,
                   mouse_wheel_events, state, hist>>

\* the Position component is spawned without its camera back-reference
SetupNoCamera == SetupWith(Some(0), PositionDefault)

Setup == SetupWith(Some(0), [PositionDefault EXCEPT !.camera_entity = Some(0)])

(***************************************************************************)
(* The engine between two frames: the window events received are sent to   *)
(* the Events resources, Time and Input<KeyCode> are updated, and the      *)
(* schedule starts with the first system.                                  *)
(***************************************************************************)
\* Events::send of each element of batch, after Events::update dropped the
\* events of the frame before
Deliver(events, batch) ==
    [buffer |-> [i \in 1..Len(batch) |->
                    [id |-> events.event_count + i - 1, event |-> batch[i]]],
     event_count |-> events.event_count + Len(batch)]

BeginFrame ==
    /\ pc = "idle"
    /\ frame < MaxFrames
    /\ \E dt \in DeltaSeconds, keys \in KeyChords,
          motion \in MotionBatches, wheel \in WheelBatches :
          /\ time' = [delta_seconds |-> dt]
          /\ keyboard_input' = keys
          /\ mouse_motion_events' = Deliver(mouse_motion_events, motion)
          /\ mouse_wheel_events' = Deliver(mouse_wheel_events, wheel)
          /\ hist' = [hist EXCEPT !.position0 = position, !.transform0 = transform,
                                  !.player0 = player, !.motion = motion,
                                  !.wheel = wheel, !.position1 = <<>>, !.ran = <<>>,
                                  !.written = <<>>, !.applied = <<>>,
                                  !.cam_written = {}, !.skipped = 0]
    /\ frame' = frame + 1
    /\ pc' = Systems[1]
    /\ UNCHANGED <<transform, position, player, children, state>>

(***************************************************************************)
(* process_mouse_events                                                    *)
(***************************************************************************)
\* EventReader::iter: the events not yet seen by the reader, oldest first
ReaderIter(reader, events) ==
    SelectSeq(events.buffer, LAMBDA e : e.id >= reader.last_event_count)

\* the reader after iter: every event sent so far is seen
ReaderAfterIter(reader, events) == [last_event_count |-> events.event_count]

\* the first event of the frame is kept where the last one is meant
FirstEvent(events, initial) ==
    IF events = <<>> THEN initial ELSE Head(events).event

RECURSIVE LastEvent(_, _)
\* for event in iter { value = event.delta }: the value after the loop
LastEvent(events, initial) ==
    IF events = <<>> THEN initial
    ELSE LastEvent(Tail(events), Head(events).event)

zoom_sense == 10 * ONE

look_sense == ONE

\* the body of the loop over the Position components
ApplyLook(pos, look, zoom_delta, delta_seconds) ==
    [pos EXCEPT
        !.yaw = @ + Mul(look.x, delta_seconds),
        !.camera_pitch = @ - Mul(Mul(look.y, delta_seconds), look_sense),
        !.camera_distance = @ - Mul(Mul(zoom_delta, delta_seconds), zoom_sense)]

Ids(events) == [i \in 1..Len(events) |-> events[i].id]

ProcessMouseEvents ==
    /\ pc = "process_mouse_events"
    /\ LET motion_iter == ReaderIter(state.mouse_motion_event_reader, mouse_motion_events)
           wheel_iter  == ReaderIter(state.mouse_wheel_event_reader, mouse_wheel_events)
           look        == LastEvent(motion_iter, Vec2Zero)
           zoom_delta  == LastEvent(wheel_iter, 0)
           delta_seconds == time.delta_seconds
       IN  /\ state' =
                [mouse_motion_event_reader |->
                    ReaderAfterIter(state.mouse_motion_event_reader, mouse_motion_events),
                 mouse_wheel_event_reader |->
                    ReaderAfterIter(state.mouse_wheel_event_reader, mouse_wheel_events)]
           /\ position' = [e \in DOMAIN position |->
                              ApplyLook(position[e], look, zoom_delta, delta_seconds)]
           /\ hist' = [hist EXCEPT !.ran = Append(@, "process_mouse_events"),
                                   !.position1 = position',
                                   !.motion_reads = @ \o Ids(motion_iter),
                                   !.wheel_reads = @ \o Ids(wheel_iter)]
    /\ pc' = After(IndexOf("process_mouse_events"))
    /\ UNCHANGED <<frame, transform, player, children, time, keyboard_input,
                   mouse_motion_events, mouse_wheel_events>>

(***************************************************************************)
(* update_camera                                                           *)
(***************************************************************************)
\* S adds to movement.y where it is meant to subtract
MovementNoCancel(pressed) ==
    Vec2((IF "D" \in pressed THEN ONE ELSE 0) - (IF "A" \in pressed THEN ONE ELSE 0),
         (IF "W" \in pressed THEN ONE ELSE 0) + (IF "S" \in pressed THEN ONE ELSE 0))

\* movement after the four keyboard_input.pressed tests
Movement(pressed) ==
    Vec2((IF "D" \in pressed THEN ONE ELSE 0) - (IF "A" \in pressed THEN ONE ELSE 0),
         (IF "W" \in pressed THEN ONE ELSE 0) - (IF "S" \in pressed THEN ONE ELSE 0))

\* if movement != Vec2::zero() { movement.normalize(); }
\* Vec2::normalize takes self by value and returns the normalized vector; the
\* statement drops that value, so movement is what it was
AfterNormalizeStatement(movement) ==
    IF movement # Vec2Zero
    THEN LET dropped == Vec2Normalize(movement) IN movement
    ELSE movement

move_speed == 10 * ONE

\* movement *= time.delta_seconds() * move_speed
ScaledMovement(pressed, delta_seconds) ==
    LET movement == AfterNormalizeStatement(Movement(pressed))
        factor   == Mul(delta_seconds, move_speed)
    IN  Vec2(Mul(movement.x, factor), Mul(movement.y, factor))

\* camera_pitch.max(1 degree).min(179 degrees)
ClampPitchLowOnly(camera_pitch) == Max(camera_pitch, ToRadians(1))

ClampPitch(camera_pitch) == Min(Max(camera_pitch, ToRadians(1)), ToRadians(179))

\* camera_distance.max(5.).min(30.)
ClampDistance(camera_distance) == Min(Max(camera_distance, 5 * ONE), 30 * ONE)

\* the rotation is overwritten from yaw before the movement axes are read
OrbitStepRotateFirst(pos, tr, movement) ==
    LET rotated == [tr EXCEPT !.rotation = QuatFromRotationY(-pos.yaw)]
        fwd     == Forward(rotated)
        right   == Vec3Cross(fwd, Vec3UnitY)
    IN  [rotated EXCEPT !.translation =
            Vec3Add(@, Vec3Add(Vec3Scale(fwd, movement.y), Vec3Scale(right, movement.x)))]

\* the Transform of an orbit entity after the loop body: moved along the axes
\* of its rotation, then rotated about y by -yaw
OrbitStep(pos, tr, movement) ==
    LET fwd0  == Forward(tr)
        right0 == Vec3Cross(fwd0, Vec3UnitY)
        fwd   == Vec3Scale(fwd0, movement.y)
        right == Vec3Scale(right0, movement.x)
    IN  [translation |-> Vec3Add(tr.translation, Vec3Add(fwd, right)),
         rotation    |-> QuatFromRotationY(-pos.yaw)]

\* Vec3::new(0., pitch.cos(), -pitch.sin()).normalize() * camera_distance
CamPos(pos) ==
    Vec3Scale(Vec3Normalize(Vec3(0, Cos(pos.camera_pitch), -Sin(pos.camera_pitch))),
              pos.camera_distance)

RECURSIVE OrbitLoop(_, _, _)
\* the loop over q0, the entities with Position and Transform
OrbitLoop(entities, movement, acc) ==
    IF entities = <<>> THEN acc
    ELSE LET e   == Head(entities)
             pos == [acc.position[e] EXCEPT
                        !.camera_pitch = ClampPitch(@),
                        !.camera_distance = ClampDistance(@)]
             tr  == OrbitStep(pos, acc.transform[e], movement)
         IN  OrbitLoop(Tail(entities), movement,
                [acc EXCEPT
                    !.position[e] = pos,
                    !.transform[e] = tr,
                    !.pos_translation = tr.translation,
                    !.pos_rotation = tr.rotation,
                    !.cam_positions =
                        IF pos.camera_entity # None
                        THEN Append(@, <<pos.camera_entity[1], CamPos(pos)>>)
                        ELSE @,
                    !.skipped = IF pos.camera_entity # None THEN @ ELSE @ + 1])

RECURSIVE CameraLoop(_, _)
\* the loop over cam_positions
CameraLoop(cam_positions, acc) ==
    IF cam_positions = <<>> THEN acc
    ELSE LET camera_entity == Head(cam_positions)[1]
             cam_pos       == Head(cam_positions)[2]
         IN  IF camera_entity \in DOMAIN acc.transform
             THEN LET look == FaceToward(cam_pos, Vec3Zero, Vec3UnitY)
                      rot  == ToRotation(look)
                  IN  CameraLoop(Tail(cam_positions),
                         [acc EXCEPT
                            !.transform[camera_entity] =
                                [translation |-> cam_pos, rotation |-> rot],
                            !.pos_rotation = QuatMul(@, rot),
                            !.cam_written = @ \cup {camera_entity}])
             ELSE CameraLoop(Tail(cam_positions), [acc EXCEPT !.skipped = @ + 1])

UpdateCamera ==
    /\ pc = "update_camera"
    /\ LET movement == ScaledMovement(keyboard_input, time.delta_seconds)
           acc0 == [position |-> position, transform |-> transform,
                    pos_translation |-> Vec3Zero, pos_rotation |-> QuatIdentity,
                    cam_positions |-> <<>>, cam_written |-> {}, skipped |-> 0]
           acc1 == OrbitLoop(SortedSeq(DOMAIN position \cap DOMAIN transform),
                             movement, acc0)
       IN  \E acc2 \in {CameraLoop(acc1.cam_positions, acc1)} :
           /\ position' = acc2.position
           /\ transform' = acc2.transform
           /\ player' = [e \in DOMAIN player |->
                            [pos_translation |-> acc2.pos_translation,
                             pos_rotation |-> acc2.pos_rotation]]
           /\ hist' = [hist EXCEPT !.ran = Append(@, "update_camera"),
                                   !.written = player',
                                   !.cam_written = acc2.cam_written,
                                   !.skipped = acc2.skipped]
    /\ pc' = After(IndexOf("update_camera"))
    /\ UNCHANGED <<frame, children, time, keyboard_input, mouse_motion_events,
                   mouse_wheel_events, state>>

(***************************************************************************)
(* update_play                                                             *)
(***************************************************************************)
lerp_factor == ONE \div 20

\* the rotation is set to the target in one step
PlayStepSnap(pl, tr) ==
    [translation |-> pl.pos_translation, rotation |-> pl.pos_rotation]

\* the translation is interpolated like the rotation
PlayStepLerpBoth(pl, tr) ==
    [translation |-> Vec3Add(tr.translation,
                        Vec3Scale(Vec3Sub(pl.pos_translation, tr.translation), lerp_factor)),
     rotation    |-> QuatLerp(tr.rotation, pl.pos_rotation, lerp_factor)]

\* the Transform of a Player entity after the loop body
PlayStep(pl, tr) ==
    [translation |-> pl.pos_translation,
     rotation    |-> QuatLerp(tr.rotation, pl.pos_rotation, lerp_factor)]

UpdatePlay ==
    /\ pc = "update_play"
    /\ transform' = [e \in DOMAIN transform |->
                        IF e \in DOMAIN player
                        THEN PlayStep(player[e], transform[e])
                        ELSE transform[e]]
    /\ hist' = [hist EXCEPT !.ran = Append(@, "update_play"), !.applied = player]
    /\ pc' = After(IndexOf("update_play"))
    /\ UNCHANGED <<frame, position, player, children, time, keyboard_input,
                   mouse_motion_events, mouse_wheel_events, state>>

Next == Setup \/ BeginFrame \/ ProcessMouseEvents \/ UpdateCamera \/ UpdatePlay

Spec == Init /\ [][Next]_vars

(***************************************************************************)
(* Properties.                                                             *)
(***************************************************************************)
\* system s has run in the current frame
Ran(s) == \E i \in 1..Len(hist.ran) : hist.ran[i] = s

\* the three systems of a frame have run and the next frame has not begun
FrameDone == pc = "idle" /\ frame >= 1

NoDuplicates(seq) == \A i, j \in 1..Len(seq) : seq[i] = seq[j] => i = j

\* C1: once update_camera has run in a frame, every Position has camera_pitch
\* within [1 degree, 179 degrees] and camera_distance within [5, 30], whatever
\* process_mouse_events made of them.
C1_ClampedAfterUpdateCamera ==
    Ran("update_camera") =>
        \A e \in DOMAIN position :
            /\ ToRadians(1) <= position[e].camera_pitch
            /\ position[e].camera_pitch <= ToRadians(179)
            /\ 5 * ONE <= position[e].camera_distance
            /\ position[e].camera_distance <= 30 * ONE

\* process_mouse_events pushed pitch and distance above their ranges, and
\* update_camera has run
C1_Witness ==
    /\ Ran("update_camera")
    /\ \E e \in DOMAIN hist.position1 :
          /\ hist.position1[e].camera_pitch > ToRadians(179)
          /\ hist.position1[e].camera_distance > 30 * ONE

\* pitch and distance pushed below their ranges
C1_WitnessBelow ==
    /\ Ran("update_camera")
    /\ \E e \in DOMAIN hist.position1 :
          /\ hist.position1[e].camera_pitch < ToRadians(1)
          /\ hist.position1[e].camera_distance < 5 * ONE

\* the distance of two unit quaternions as rotations: ONE minus |a . b|
QuatGap(a, b) == ONE - Abs(QuatDot(a, b))

\* C2 as stated: after update_play the translation and the rotation of the
\* Player entity are both short of the target whenever they were off it.
C2_BothInterpolated ==
    Ran("update_play") =>
        \A e \in DOMAIN player :
            /\ hist.transform0[e].translation # hist.applied[e].pos_translation
                  => transform[e].translation # hist.applied[e].pos_translation
            /\ QuatGap(hist.transform0[e].rotation, hist.applied[e].pos_rotation) > ONE \div 10
                  => transform[e].rotation # hist.applied[e].pos_rotation

\* C2 amended: update_play sets the translation to the target pos_translation
\* in one step; only the rotation is interpolated: it is the normalized lerp
\* with factor 0.05 of its previous value and pos_rotation, which is no
\* farther from the target than the previous value and, when that was well
\* off the target, still short of it.
C2_RotationInterpolatedTranslationSet ==
    Ran("update_play") =>
        \A e \in DOMAIN player :
            LET old    == hist.transform0[e].rotation
                target == hist.applied[e].pos_rotation
            IN  /\ transform[e].translation = hist.applied[e].pos_translation
                /\ transform[e].rotation = QuatLerp(old, target, lerp_factor)
                /\ QuatGap(transform[e].rotation, target) <= QuatGap(old, target) + 2
                /\ QuatGap(old, target) > ONE \div 10
                      => /\ transform[e].rotation # target
                         /\ transform[e].rotation # old
                         /\ QuatGap(transform[e].rotation, target) < QuatGap(old, target)

\* update_play has run on a Player whose translation and rotation were both
\* off the target
C2_Witness ==
    /\ Ran("update_play")
    /\ frame >= 2
    /\ \E e \in DOMAIN player :
          /\ hist.transform0[e].translation # hist.applied[e].pos_translation
          /\ QuatGap(hist.transform0[e].rotation, hist.applied[e].pos_rotation) > ONE \div 10
          /\ transform[e].translation = hist.applied[e].pos_translation

\* C3 as stated: from the second frame on, the target update_play applies is
\* the one the Player record held when the frame began, written by
\* update_camera in the frame before.
C3_AppliesPreviousFrameTarget ==
    (Ran("update_play") /\ frame >= 2) => hist.applied = hist.player0

\* C3 amended: update_camera runs before update_play in every frame, and the
\* target update_play applies is the one update_camera wrote in that same
\* frame.
C3_AppliesSameFrameTarget ==
    Ran("update_play") =>
        /\ Ran("update_camera")
        /\ hist.applied = hist.written
        /\ \A e \in DOMAIN player :
              transform[e].translation = hist.written[e].pos_translation

\* update_play has run in a frame whose update_camera changed the target
C3_Witness ==
    /\ Ran("update_play")
    /\ frame >= 2
    /\ hist.written # hist.player0
    /\ hist.applied = hist.written

\* C4: after setup every Position names a camera entity that has a
\* Transform, update_camera rewrites that camera in every frame and skips
\* none, and the entities and their components are those setup spawned.
C4_CameraAlwaysPlaced ==
    /\ pc # "startup" =>
          /\ DOMAIN transform = 0..4
          /\ DOMAIN position = {1}
          /\ DOMAIN player = {4}
          /\ \A e \in DOMAIN position :
                /\ position[e].camera_entity = Some(0)
                /\ position[e].camera_entity[1] \in DOMAIN transform
    /\ Ran("update_camera") =>
          /\ hist.skipped = 0
          /\ \A e \in DOMAIN position :
                /\ position[e].camera_entity[1] \in hist.cam_written
                /\ transform[position[e].camera_entity[1]].translation = CamPos(position[e])

\* update_camera has placed the camera in a second frame, somewhere else than
\* in the frame before
C4_Witness ==
    /\ Ran("update_camera")
    /\ frame >= 2
    /\ hist.cam_written = {0}
    /\ transform[0] # hist.transform0[0]

\* C5: the orbit entity and the Player entity stay at height 0.5, and the
\* orbit entity's rotation is a rotation about the y axis.
C5_MovesOnPlane ==
    pc # "startup" =>
        /\ \A e \in DOMAIN position :
              /\ transform[e].translation.y = ONE \div 2
              /\ transform[e].rotation.x = 0
              /\ transform[e].rotation.z = 0
        /\ \A e \in DOMAIN player : transform[e].translation.y = ONE \div 2

\* a frame has ended with the orbit entity turned in the frame before and
\* moved along both of its axes in this one, the player with it
C5_Witness ==
    /\ FrameDone
    /\ frame >= 2
    /\ hist.transform0[1].rotation.y # 0
    /\ transform[1].translation.x # hist.transform0[1].translation.x
    /\ transform[1].translation.z # hist.transform0[1].translation.z
    /\ transform[4].translation = transform[1].translation

\* C6: at the end of every frame the Player entity is where the orbit entity
\* is, and the Player record holds that translation.
C6_PlayerAtOrbit ==
    FrameDone =>
        \A p \in DOMAIN player : \A o \in DOMAIN position :
            /\ transform[p].translation = transform[o].translation
            /\ player[p].pos_translation = transform[o].translation

\* a frame has ended in which the orbit entity moved
C6_Witness ==
    /\ FrameDone
    /\ frame >= 2
    /\ transform[1].translation # hist.transform0[1].translation
    /\ hist.transform0[1].translation # Vec3(0, ONE \div 2, 0)

\* no movement key is pressed, or W and S are both pressed while A and D are
\* both pressed or both released
KeysCancel(pressed) ==
    \/ pressed \cap {"W", "A", "S", "D"} = {}
    \/ /\ {"W", "S"} \subseteq pressed
       /\ ("A" \in pressed) <=> ("D" \in pressed)

\* C7: in a frame whose keys cancel, update_camera leaves the orbit entity's
\* translation as it was.
C7_NoKeysNoMove ==
    (Ran("update_camera") /\ KeysCancel(keyboard_input)) =>
        \A e \in DOMAIN position :
            transform[e].translation = hist.transform0[e].translation

\* update_camera has run with W and S held, a turned orbit entity, a positive
\* delta time and mouse motion and wheel events in the frame
C7_Witness ==
    /\ Ran("update_camera")
    /\ {"W", "S"} \subseteq keyboard_input
    /\ time.delta_seconds > 0
    /\ hist.motion # <<>>
    /\ hist.wheel # <<>>
    /\ hist.transform0[1].rotation # QuatIdentity
    /\ position[1].yaw # hist.position0[1].yaw

\* one key of W/S and one key of A/D are pressed
Diagonal(pressed) ==
    /\ ("W" \in pressed) # ("S" \in pressed)
    /\ ("A" \in pressed) # ("D" \in pressed)

\* the squared length of the orbit entity's displacement in this frame
DisplacementSq(e) ==
    LET d == Vec3Sub(transform[e].translation, hist.transform0[e].translation)
    IN  d.x * d.x + d.y * d.y + d.z * d.z

\* C8: with two perpendicular keys pressed the displacement of the frame has
\* the length move_speed * delta_seconds of a single key's displacement
\* (up to a tenth of its square).
C8_DiagonalNotFaster ==
    (Ran("update_camera") /\ Diagonal(keyboard_input)) =>
        \A e \in DOMAIN position :
            LET m == Mul(move_speed, time.delta_seconds)
            IN  Abs(DisplacementSq(e) - m * m) <= (m * m) \div 10

\* with one key pressed the displacement has that length
C8_SingleKeyLength ==
    (Ran("update_camera") /\ Cardinality(keyboard_input) = 1) =>
        \A e \in DOMAIN position :
            LET m == Mul(move_speed, time.delta_seconds)
            IN  Abs(DisplacementSq(e) - m * m) <= (m * m) \div 10

\* C9: right after process_mouse_events, yaw, pitch and distance differ from
\* their values at the start of the frame by the last motion event's and the
\* last wheel event's delta of this frame, scaled by the delta time (by
\* nothing when the frame has no such event), and no event has been read
\* twice.
C9_LastEventOnly ==
    hist.ran = <<"process_mouse_events">> =>
        LET dt   == time.delta_seconds
            look == IF hist.motion = <<>> THEN Vec2Zero
                    ELSE hist.motion[Len(hist.motion)]
            zoom == IF hist.wheel = <<>> THEN 0 ELSE hist.wheel[Len(hist.wheel)]
        IN  /\ \A e \in DOMAIN position :
                  /\ position[e].yaw = hist.position0[e].yaw + Mul(look.x, dt)
                  /\ position[e].camera_pitch =
                        hist.position0[e].camera_pitch - Mul(look.y, dt)
                  /\ position[e].camera_distance =
                        hist.position0[e].camera_distance - 10 * Mul(zoom, dt)
                  /\ (hist.motion = <<>> \/ dt = 0) =>
                        /\ position[e].yaw = hist.position0[e].yaw
                        /\ position[e].camera_pitch = hist.position0[e].camera_pitch
                  /\ (hist.wheel = <<>> \/ dt = 0) =>
                        position[e].camera_distance = hist.position0[e].camera_distance
            /\ NoDuplicates(hist.motion_reads)
            /\ NoDuplicates(hist.wheel_reads)

\* process_mouse_events has run in a second frame that delivered two
\* different motion events and two different wheel events, with a positive
\* delta time, after a frame that delivered events too
C9_Witness ==
    /\ hist.ran = <<"process_mouse_events">>
    /\ frame >= 2
    /\ time.delta_seconds > 0
    /\ Len(hist.motion) >= 2
    /\ hist.motion[1] # hist.motion[2]
    /\ Len(hist.wheel) >= 2
    /\ hist.wheel[1] # hist.wheel[2]
    /\ Len(hist.motion_reads) > Len(hist.motion)
    /\ position[1].yaw # hist.position0[1].yaw

\* the rotation the orbit entity had when the frame began: the y-rotation by
\* -yaw of the frame before, the identity in the first frame
RotationBefore(e) ==
    IF frame = 1 THEN QuatIdentity ELSE QuatFromRotationY(-hist.position0[e].yaw)

\* the translation of e moved by the frame's movement along the axes of
\* rotation rot
MovedAlong(e, rot) ==
    LET m   == ScaledMovement(keyboard_input, time.delta_seconds)
        fwd == QuatMulVec3(rot, Vec3UnitZ)
    IN  Vec3Add(hist.transform0[e].translation,
                Vec3Add(Vec3Scale(fwd, m.y),
                        Vec3Scale(Vec3Cross(fwd, Vec3UnitY), m.x)))

\* C10: update_camera moves the orbit entity along the axes of the rotation
\* it had before the frame, and leaves it rotated about y by -yaw of this
\* frame.
C10_MovesAlongOldAxes ==
    Ran("update_camera") =>
        \A e \in DOMAIN position :
            /\ transform[e].translation = MovedAlong(e, RotationBefore(e))
            /\ transform[e].rotation = QuatFromRotationY(-position[e].yaw)

\* update_camera has run with keys pressed in a frame whose mouse input
\* changed yaw, and the new rotation's axes would have led elsewhere
C10_Witness ==
    /\ Ran("update_camera")
    /\ frame >= 2
    /\ position[1].yaw # hist.position0[1].yaw
    /\ hist.position0[1].yaw # 0
    /\ transform[1].translation # hist.transform0[1].translation
    /\ transform[1].translation # MovedAlong(1, transform[1].rotation)
====
